---- MODULE Spec2Model ----
(***************************************************************************)
(* BoardsList (features/gallery/components/Boards/BoardsList/BoardsList.tsx) *)
(* as a state machine.  The state is what the component reads on a render: *)
(* the store's searchText and selectedBoardId, the data of                 *)
(* useListAllBoardsQuery, the isOpen prop and the two useState cells.  The  *)
(* variable view is the element tree of the last render; React renders the *)
(* component again after every change of a prop, of the selected store     *)
(* slice, of the query data or of a useState cell, so every action ends    *)
(* with Rerender.                                                          *)
(*                                                                         *)
(* Optional values (undefined / null in the source) are sequences of       *)
(* length at most one: None is absent, Some(x) is present.  Strings are    *)
(* sequences of one-character strings, so that toLowerCase and includes    *)
(* are computed character by character.                                    *)
(***************************************************************************)
EXTENDS Naturals, Sequences, FiniteSets, TLC

VARIABLES boards, searchText, selectedBoardId, isOpen,
          boardToDelete, isSearching, view, hist

vars == <<boards, searchText, selectedBoardId, isOpen,
          boardToDelete, isSearching, view, hist>>

\* ------------------------------------------------------------------ bounds
MaxBoards == 2
MaxNameLen == 2
MaxQueryLen == 2

\* ------------------------------------------------------------ data domains
None == <<>>
Some(x) == <<x>>

NameChars == {"A", "b"}
QueryChars == {"a", "A", "b"}

SeqsUpTo(S, n) == UNION {[1..k -> S] : k \in 0..n}

Names == SeqsUpTo(NameChars, MaxNameLen)

BoardIds == {ToString(i) : i \in 1..MaxBoards}
SystemBoardIds == {"images", "assets", "no_board"}

\* Collections as the boards endpoint returns them: the i-th board created
\* has id i, every name is possible.
Collections ==
  UNION {{[i \in 1..k |-> [board_id |-> ToString(i), board_name |-> nm[i]]] :
            nm \in [1..k -> Names]} : k \in 0..MaxBoards}

\* Collections of the component's state machine: the boards that exist, in
\* the endpoint's order (here by id), names of one character.  A refresh may
\* add, remove or rename boards.
UINames == {<<"A">>, <<"b">>}
UIQueries == {<<>>, <<"a">>}
IdOrder(id) == CHOOSE i \in 1..MaxBoards : ToString(i) = id
UICollections ==
  {s \in SeqsUpTo([board_id : BoardIds, board_name : UINames], MaxBoards) :
     \A i, j \in 1..Len(s) : i < j => IdOrder(s[i].board_id) < IdOrder(s[j].board_id)}
SelectableIds == SystemBoardIds \cup BoardIds

\* ------------------------------------------------------- JavaScript pieces
\* String.prototype.toLowerCase, one character
LowerChar(c) == CASE c = "A" -> "a" [] c = "B" -> "b" [] OTHER -> c

ToLowerCase(s) == [i \in 1..Len(s) |-> LowerChar(s[i])]

\* String.prototype.includes
Includes(s, t) ==
  \E i \in 0..Len(s) : i + Len(t) <= Len(s) /\ SubSeq(s, i + 1, i + Len(t)) = t

\* a string in a condition: the empty string is falsy
Truthy(s) == Len(s) > 0

\* ------------------------------------------------------------------ render
\* FilteredBoards with the query compared as typed
FilteredBoardsQueryAsTyped(b, q) ==
  IF Truthy(q)
  THEN IF b = None
       THEN [threw |-> FALSE, value |-> None]
       ELSE [threw |-> FALSE,
             value |-> Some(SelectSeq(b[1],
                         LAMBDA board : Includes(ToLowerCase(board.board_name), q)))]
  ELSE [threw |-> FALSE, value |-> b]

\* FilteredBoards with boards.filter in place of boards?.filter
FilteredBoardsNoOptionalChain(b, q) ==
  IF Truthy(q)
  THEN IF b = None
       THEN [threw |-> TRUE, value |-> None]
       ELSE [threw |-> FALSE,
             value |-> Some(SelectSeq(b[1],
                         LAMBDA board :
                           Includes(ToLowerCase(board.board_name), ToLowerCase(q))))]
  ELSE [threw |-> FALSE, value |-> b]

\* const filteredBoards = searchText ? boards?.filter(...) : boards;
\* threw records a TypeError raised while evaluating the expression.
FilteredBoards(b, q) ==
  IF Truthy(q)
  THEN IF b = None
       THEN [threw |-> FALSE, value |-> None]
       ELSE [threw |-> FALSE,
             value |-> Some(SelectSeq(b[1],
                         LAMBDA board :
                           Includes(ToLowerCase(board.board_name), ToLowerCase(q))))]
  ELSE [threw |-> FALSE, value |-> b]

\* SystemBoardButton handed the delete callback as well
SystemBoardButtonWithDelete(board_id) ==
  [board_id |-> board_id, setBoardToDelete |-> TRUE]

\* <SystemBoardButton board_id=... />: no delete callback among its props
SystemBoardButton(board_id) ==
  [board_id |-> board_id, setBoardToDelete |-> FALSE]

\* the region with the system boards rendered unconditionally
RegionChildrenBoth(searching) ==
  (IF searching
   THEN << [key |-> "boards-search", setIsSearching |-> TRUE, buttons |-> <<>>] >>
   ELSE <<>>)
  \o << [key |-> "system-boards-select", setIsSearching |-> FALSE,
          buttons |-> << SystemBoardButton("images"),
                         SystemBoardButton("assets"),
                         SystemBoardButton("no_board") >>] >>

\* {isSearching ? <motion.div key="boards-search">... : <motion.div
\*  key="system-boards-select">...}: the children of the AnimatePresence
RegionChildren(searching) ==
  IF searching
  THEN << [key |-> "boards-search", setIsSearching |-> TRUE, buttons |-> <<>>] >>
  ELSE << [key |-> "system-boards-select", setIsSearching |-> FALSE,
           buttons |-> << SystemBoardButton("images"),
                          SystemBoardButton("assets"),
                          SystemBoardButton("no_board") >>] >>

\* GalleryBoard with isSelected={!!selectedBoardId}
GalleryBoardAnySelection(board, selected) ==
  [key |-> board.board_id,
   board |-> board,
   isSelected |-> (selected # None),
   setBoardToDelete |-> TRUE]

\* <GridItem key={board.board_id}><GalleryBoard board isSelected setBoardToDelete/>
GalleryBoard(board, selected) ==
  [key |-> board.board_id,
   board |-> board,
   isSelected |-> (selected = Some(board.board_id)),
   setBoardToDelete |-> TRUE]

\* {filteredBoards && filteredBoards.map((board) => ...)}
GridCells(filtered, selected) ==
  IF filtered = None
  THEN <<>>
  ELSE [i \in 1..Len(filtered[1]) |-> GalleryBoard(filtered[1][i], selected)]

\* The element tree BoardsList returns.  An exception thrown while rendering
\* leaves no tree (error).
Render(b, q, selected, open, searching, toDelete) ==
  LET f == FilteredBoards(b, q) IN
  [error |-> f.threw,
   collapseIn |-> open,
   region |-> IF f.threw THEN <<>> ELSE RegionChildren(searching),
   isChecked |-> searching,
   cells |-> IF f.threw THEN <<>> ELSE GridCells(f.value, selected),
   modal |-> toDelete]

Rerender ==
  view' = Render(boards', searchText', selectedBoardId', isOpen',
                 isSearching', boardToDelete')

\* The boards a rendered control can hand to setBoardToDelete: a control
\* calls the callback it was given with the board it shows.
DeleteCallers(v) ==
  {v.cells[i].board : i \in {j \in 1..Len(v.cells) : v.cells[j].setBoardToDelete}}
  \cup UNION {{[board_id |-> v.region[c].buttons[k].board_id, board_name |-> <<>>] :
                 k \in {m \in 1..Len(v.region[c].buttons) :
                           v.region[c].buttons[m].setBoardToDelete}} :
              c \in 1..Len(v.region)}

\* ----------------------------------------------------------------- history
\* hist is not program state: op is the last operation, and start and toggles
\* describe the run of consecutive toggleSearchMode steps that ends here
\* (toggles is 0 for no run, 1 for an odd and 2 for an even number of them;
\* start is isSearching before the run).
Note(op) ==
  hist' = [op |-> op,
           start |-> IF op = "toggleSearchMode" THEN hist.start ELSE isSearching',
           toggles |-> IF op = "toggleSearchMode"
                       THEN (IF hist.toggles = 1 THEN 2 ELSE 1)
                       ELSE 0]

\* -------------------------------------------------------------------- init
Init ==
  /\ boards = None
  /\ searchText = <<>>
  /\ selectedBoardId \in {None} \cup {Some(i) : i \in SelectableIds}
  /\ isOpen \in BOOLEAN
  /\ boardToDelete = None
  /\ isSearching = FALSE
  /\ view = Render(boards, searchText, selectedBoardId, isOpen,
                   isSearching, boardToDelete)
  /\ hist = [op |-> "init", start |-> FALSE, toggles |-> 0]

\* ----------------------------------------------------------------- actions
\* a refresh after which the grid of the previous render is kept
RefreshBoardsStale(b) ==
  /\ boards' = Some(b)
  /\ UNCHANGED <<searchText, selectedBoardId, isOpen, boardToDelete, isSearching>>
  /\ Note("refresh")
  /\ view' = view

\* the data of useListAllBoardsQuery changes (first load, cache refresh)
RefreshBoards(b) ==
  /\ boards' = Some(b)
  /\ UNCHANGED <<searchText, selectedBoardId, isOpen, boardToDelete, isSearching>>
  /\ Note("refresh")
  /\ Rerender

\* a search text change that leaves search mode when the text is cleared
SetSearchTextLeavingSearch(q) ==
  /\ searchText' = q
  /\ isSearching' = (isSearching /\ Truthy(q))
  /\ UNCHANGED <<boards, selectedBoardId, isOpen, boardToDelete>>
  /\ Note("searchText")
  /\ Rerender

\* the store's boards.searchText changes
SetSearchText(q) ==
  /\ searchText' = q
  /\ UNCHANGED <<boards, selectedBoardId, isOpen, boardToDelete, isSearching>>
  /\ Note("searchText")
  /\ Rerender

\* the store's gallery.selectedBoardId changes
SelectBoard(id) ==
  /\ selectedBoardId' = id
  /\ UNCHANGED <<boards, searchText, isOpen, boardToDelete, isSearching>>
  /\ Note("select")
  /\ Rerender

\* the parent passes another isOpen.  Collapse keeps its children mounted
\* when isOpen is false, and no handler below tests isOpen.
SetIsOpen(open) ==
  /\ isOpen' = open
  /\ UNCHANGED <<boards, searchText, selectedBoardId, boardToDelete, isSearching>>
  /\ Note("isOpen")
  /\ Rerender

\* the state setters of the two useState cells
setIsSearching(v) == isSearching' = v

\* a setter that keeps a board already pending
setBoardToDeleteKeepPending(x) ==
  boardToDelete' = IF boardToDelete # None /\ x # None THEN boardToDelete ELSE x

setBoardToDelete(x) == boardToDelete' = x

\* the search icon opening the search instead of toggling it
handleClickSearchIconOpenOnly ==
  /\ setIsSearching(TRUE)
  /\ UNCHANGED <<boards, searchText, selectedBoardId, isOpen, boardToDelete>>
  /\ Note("toggleSearchMode")
  /\ Rerender

\* the search icon clearing the search text when it leaves search mode
handleClickSearchIconClearing ==
  /\ setIsSearching(~isSearching)
  /\ searchText' = IF isSearching THEN <<>> ELSE searchText
  /\ UNCHANGED <<boards, selectedBoardId, isOpen, boardToDelete>>
  /\ Note("toggleSearchMode")
  /\ Rerender

\* toggleSearchMode: setIsSearching((v) => !v)
handleClickSearchIcon ==
  /\ setIsSearching(~isSearching)
  /\ UNCHANGED <<boards, searchText, selectedBoardId, isOpen, boardToDelete>>
  /\ Note("toggleSearchMode")
  /\ Rerender

\* BoardsSearch, rendered while searching, is handed setIsSearching itself and
\* may call it with either value.
BoardsSearchSetIsSearching(v) ==
  /\ \E c \in 1..Len(view.region) : view.region[c].setIsSearching
  /\ setIsSearching(v)
  /\ UNCHANGED <<boards, searchText, selectedBoardId, isOpen, boardToDelete>>
  /\ Note("boardsSearch")
  /\ Rerender

\* requestDelete(board): a rendered control calls its setBoardToDelete
RequestDelete(board) ==
  /\ board \in DeleteCallers(view)
  /\ setBoardToDelete(Some(board))
  /\ UNCHANGED <<boards, searchText, selectedBoardId, isOpen, isSearching>>
  /\ Note("requestDelete")
  /\ Rerender

\* resolveDeleteDialog(): DeleteBoardModal closes, confirmed or cancelled
ResolveDeleteDialog ==
  /\ setBoardToDelete(None)
  /\ UNCHANGED <<boards, searchText, selectedBoardId, isOpen, isSearching>>
  /\ Note("resolveDeleteDialog")
  /\ Rerender

Next ==
  \/ \E b \in UICollections : RefreshBoards(b)
  \/ \E q \in UIQueries : SetSearchText(q)
  \/ \E id \in {None} \cup {Some(i) : i \in SelectableIds} : SelectBoard(id)
  \/ \E open \in BOOLEAN : SetIsOpen(open)
  \/ handleClickSearchIcon
  \/ \E v \in BOOLEAN : BoardsSearchSetIsSearching(v)
  \/ \E board \in DeleteCallers(view) : RequestDelete(board)
  \/ ResolveDeleteDialog

Spec == Init /\ [][Next]_vars

\* The filter on every collection and every query: the component mounted
\* with the query cache in any state, then the search text typed.
InitFilter ==
  /\ boards \in {None} \cup {Some(c) : c \in Collections}
  /\ searchText = <<>>
  /\ selectedBoardId = None
  /\ isOpen = TRUE
  /\ boardToDelete = None
  /\ isSearching = FALSE
  /\ view = Render(boards, searchText, selectedBoardId, isOpen,
                   isSearching, boardToDelete)
  /\ hist = [op |-> "init", start |-> FALSE, toggles |-> 0]

\* the search text is typed one character at a time
NextFilter ==
  \E c \in QueryChars :
    /\ Len(searchText) < MaxQueryLen
    /\ SetSearchText(Append(searchText, c))

SpecFilter == InitFilter /\ [][NextFilter]_vars

\* ------------------------------------------------------------ the reference
\* two characters that are the same letter, whatever their case
SameLetter(c, d) ==
  \/ c = d
  \/ {c, d} = {"a", "A"}
  \/ {c, d} = {"b", "B"}

\* two strings that differ at most in letter case
SameButCase(s, t) ==
  Len(s) = Len(t) /\ \A i \in 1..Len(s) : SameLetter(s[i], t[i])

\* q occurs in name at some offset, letter case ignored
ContainsIgnoringCase(name, q) ==
  \E i \in 1..(Len(name) + 1) :
    /\ i + Len(q) - 1 <= Len(name)
    /\ \A j \in 1..Len(q) : SameLetter(name[i + j - 1], q[j])

\* the boards of B at the matching positions, in the order of B
Reference(B, q) ==
  IF q = <<>>
  THEN B
  ELSE LET idx == {i \in 1..Len(B) : ContainsIgnoringCase(B[i].board_name, q)} IN
       [k \in 1..Cardinality(idx) |->
          B[CHOOSE i \in idx : Cardinality({j \in idx : j <= i}) = k]]

\* the boards of the grid's cells, in the grid's order
Displayed == [i \in 1..Len(view.cells) |-> view.cells[i].board]

SearchShown ==
  \E c \in 1..Len(view.region) : view.region[c].key = "boards-search"

SystemShown ==
  \E c \in 1..Len(view.region) :
    [k \in 1..Len(view.region[c].buttons) |-> view.region[c].buttons[k].board_id]
      = <<"images", "assets", "no_board">>

\* ------------------------------------------------------------------- claims
\* C1: for every collection B and query q, filterBoards(B, q) is B itself
\* when q is empty and otherwise exactly the boards whose name contains q,
\* letter case ignored, in their order in B; queries that differ only in
\* letter case give the same result.
C1_FilterEqualsReference ==
  boards # None =>
    /\ FilteredBoards(boards, searchText)
         = [threw |-> FALSE, value |-> Some(Reference(boards[1], searchText))]
    /\ \A q2 \in [1..Len(searchText) -> QueryChars] :
         SameButCase(q2, searchText) =>
           FilteredBoards(boards, q2) = FilteredBoards(boards, searchText)

\* a two-board collection filtered to its second board by a query that
\* matches only when both sides are lower-cased
C1_Witness ==
  /\ boards # None
  /\ Len(boards[1]) = 2
  /\ searchText = <<"b", "A">>
  /\ boards[1][2].board_name = <<"b", "A">>
  /\ Displayed = <<boards[1][2]>>

\* C2: after any interleaving of refreshes, search text changes and the
\* local operations, the displayed boards are boards of the current
\* collection and are exactly the filter of the current collection by the
\* current search text.
C2_DisplayedIsFilterOfCurrent ==
  /\ \A i \in 1..Len(Displayed) :
       boards # None /\ \E j \in 1..Len(boards[1]) : boards[1][j] = Displayed[i]
  /\ boards # None => Displayed = Reference(boards[1], searchText)

\* a refresh has just replaced the collection while a search text filters it
C2_Witness ==
  /\ hist.op = "refresh"
  /\ searchText # <<>>
  /\ boards # None
  /\ Len(boards[1]) = 2
  /\ Len(Displayed) = 1

\* C3: PendingDeleteBoard starts absent, requestDelete(board) sets it to that
\* board, replacing an earlier one, and resolveDeleteDialog() sets it to
\* absent whatever it was.
C3_PendingDelete ==
  /\ boardToDelete = None
  /\ [][/\ \A b \in DeleteCallers(view) :
             RequestDelete(b) => boardToDelete' = Some(b)
        /\ ResolveDeleteDialog => boardToDelete' = None]_vars

\* a board is pending after a requestDelete
C3_Witness ==
  /\ hist.op = "requestDelete"
  /\ boardToDelete # None
  /\ \E i \in 1..Len(view.cells) : Some(view.cells[i].board) = boardToDelete

C6_IsSelected ==
  LET marked == {i \in 1..Len(view.cells) : view.cells[i].isSelected} IN
  /\ \A i \in 1..Len(view.cells) :
       view.cells[i].isSelected <=> selectedBoardId = Some(view.cells[i].board.board_id)
  /\ Cardinality(marked) <= 1
  /\ ( \/ selectedBoardId = None
       \/ selectedBoardId[1] \in SystemBoardIds
       \/ \A i \in 1..Len(Displayed) : Displayed[i].board_id # selectedBoardId[1] )
     => marked = {}

\* two boards rendered, the second one marked and the first one not
C6_Witness ==
  /\ Len(view.cells) = 2
  /\ ~view.cells[1].isSelected
  /\ view.cells[2].isSelected

\* C7: while the collection is absent the grid is empty for every search
\* text and rendering raises no error; once the collection is there the
\* grid shows its filter.
C7_AbsentCollection ==
  /\ ~view.error
  /\ boards = None => view.cells = <<>> /\ Len(view.region) = 1
  /\ boards # None => Len(view.cells) = Len(Reference(boards[1], searchText))

\* a search text typed before the first load
C7_Witness ==
  /\ boards = None
  /\ searchText # <<>>
  /\ hist.op = "searchText"

\* C8: toggleSearchMode is enabled in every state; once lands in the other
\* state, twice in a row returns the flag and the rendered control to what
\* they were.
C8_ToggleInvolutive ==
  /\ ENABLED handleClickSearchIcon
  /\ hist.toggles = 1 => (isSearching = (~hist.start)) /\ (SearchShown <=> ~hist.start)
  /\ hist.toggles = 2 => (isSearching = hist.start) /\ (SearchShown <=> hist.start)
                         /\ (SystemShown <=> ~hist.start)

\* two toggles in a row that started from Searching
C8_Witness ==
  /\ hist.toggles = 2
  /\ hist.start = TRUE
  /\ isSearching

\* C9: PendingDeleteBoard is absent or a non-system board, and no
\* system-board control is handed the delete-request callback.
C9_NoSystemBoardPending ==
  /\ boardToDelete = None \/ boardToDelete[1].board_id \notin SystemBoardIds
  /\ \A b \in DeleteCallers(view) : b.board_id \notin SystemBoardIds
  /\ \A c \in 1..Len(view.region) : \A k \in 1..Len(view.region[c].buttons) :
       ~view.region[c].buttons[k].setBoardToDelete

\* a delete requested while the system-board buttons are rendered
C9_Witness ==
  /\ hist.op = "requestDelete"
  /\ SystemShown
  /\ boardToDelete # None

\* C10: toggleSearchMode changes only SearchModeFlag, requestDelete and
\* resolveDeleteDialog only PendingDeleteBoard; the collection, the search
\* text, the selection and the displayed list are unchanged by them.
C10_Frame ==
  [][/\ hist'.op = "toggleSearchMode" =>
          /\ UNCHANGED <<boards, searchText, selectedBoardId, isOpen, boardToDelete>>
          /\ view'.cells = view.cells
     /\ hist'.op \in {"requestDelete", "resolveDeleteDialog"} =>
          /\ UNCHANGED <<boards, searchText, selectedBoardId, isOpen, isSearching>>
          /\ view'.cells = view.cells
          /\ view'.region = view.region]_vars

\* back in ShowingSystemBoards by a toggle, the search text still filtering
C10_Witness ==
  /\ hist.op = "toggleSearchMode"
  /\ ~isSearching
  /\ searchText # <<>>
  /\ boards # None
  /\ Len(view.cells) < Len(boards[1])

====
